---- MODULE Spec2Model ----
(***************************************************************************)
(* Model of the book-publication pipeline of src/main.py: one run of       *)
(* main() (open the collection, scrape, store the original, iterate        *)
(* spin -> store -> review -> human checkpoint, demonstration query,       *)
(* report), and of its store function called on its own.                   *)
(*                                                                         *)
(* Texts are tuples of one-character strings, so that strip(), lower(),    *)
(* upper() and "\n".join() are computed as Python computes them.  Python's *)
(* None is the tuple None below, which is no text (its only element is not *)
(* one character long).  Ids and version tags are strings built with \o    *)
(* as the f-strings of the source build them.                              *)
(***************************************************************************)
EXTENDS Integers, Sequences, FiniteSets, TLC

VARIABLES
    pc,                     \* position of the program
    store,                  \* the persisted collection: id -> document, metadata
    num_iterations,         \* main: num_iterations
    original_chapter_text,  \* main: original_chapter_text
    i,                      \* main: loop variable
    current_chapter_text,   \* main: current_chapter_text
    ai_spun_text,           \* main: ai_spun_text
    ai_review_feedback,     \* main: ai_review_feedback
    human_decision_text,    \* main: human_decision_text
    edited_lines,           \* human_in_the_loop_feedback: edited_lines
    search_results,         \* main: search_results
    ai_generated_text,      \* human_in_the_loop_feedback: ai_generated_text
    hitl_returns,           \* history: what each checkpoint call returned
    playwright,             \* scrape_and_screenshot: the async_playwright context
    browser,                \* scrape_and_screenshot: the browser session
    scraped_text,           \* scrape_and_screenshot: scraped_text
    close_attempts,         \* history: the browser.close() calls of this fetch
    writes,                 \* history: the store_content_in_chroma calls of this run
    store_prev,             \* history: the collection before the last of these calls
    calls,                  \* history: number of calls of each collaborator in this run
    spin_inputs,            \* history: the texts handed to ai_spin_chapter in this run
    loop_exit,              \* history: why the loop of this run was left
    exit_iter,              \* history: the iteration at which the loop was left
    hitl_base,              \* history: Len(writes) when the checkpoint was entered
    raw_input,              \* history: the last line read by input()
    reprompted              \* history: the current checkpoint has re-prompted

vars == <<pc, store, num_iterations, original_chapter_text, i,
          current_chapter_text, ai_spun_text,
          ai_review_feedback, human_decision_text, edited_lines, search_results,
          writes, store_prev, calls, spin_inputs, loop_exit, exit_iter,
          hitl_base, raw_input, reprompted, ai_generated_text, hitl_returns,
          playwright, browser, scraped_text, close_attempts>>

main_vars ==
    <<store, num_iterations, i, current_chapter_text, ai_spun_text,
      ai_review_feedback, human_decision_text, edited_lines, search_results,
      writes, store_prev, spin_inputs, exit_iter, hitl_base, raw_input,
      reprompted, ai_generated_text, hitl_returns>>

fetch_vars == <<playwright, browser, scraped_text, close_attempts>>

(***************************************************************************)
(* Bounds of the model.                                                    *)
(***************************************************************************)
MaxIterations == 2
MaxLines == 2

(***************************************************************************)
(* Python values.                                                          *)
(***************************************************************************)
None == <<"None">>

Falsy(x) == x = None \/ x = <<>>

Whitespace == {" ", "\t"}

UpperChar(c) ==
    CASE c = "a" -> "A" [] c = "c" -> "C" [] c = "d" -> "D" [] c = "e" -> "E"
      [] c = "i" -> "I" [] c = "j" -> "J" [] c = "n" -> "N" [] c = "o" -> "O"
      [] c = "p" -> "P" [] c = "r" -> "R" [] c = "t" -> "T" [] OTHER -> c

LowerChar(c) ==
    CASE c = "A" -> "a" [] c = "C" -> "c" [] c = "D" -> "d" [] c = "E" -> "e"
      [] c = "I" -> "i" [] c = "J" -> "j" [] c = "N" -> "n" [] c = "O" -> "o"
      [] c = "P" -> "p" [] c = "R" -> "r" [] c = "T" -> "t" [] OTHER -> c

Upper(s) == [k \in 1..Len(s) |-> UpperChar(s[k])]

Lower(s) == [k \in 1..Len(s) |-> LowerChar(s[k])]

RECURSIVE LStrip(_)
LStrip(s) == IF s # <<>> /\ Head(s) \in Whitespace THEN LStrip(Tail(s)) ELSE s

RECURSIVE RStrip(_)
RStrip(s) ==
    IF s # <<>> /\ s[Len(s)] \in Whitespace THEN RStrip(SubSeq(s, 1, Len(s) - 1)) ELSE s

Strip(s) == RStrip(LStrip(s))

RECURSIVE Join(_)
Join(lines) ==
    IF lines = <<>> THEN <<>>
    ELSE IF Len(lines) = 1 THEN lines[1]
    ELSE lines[1] \o <<"\n">> \o Join(Tail(lines))

(***************************************************************************)
(* What the collaborators may answer.                                      *)
(***************************************************************************)
ScrapedTexts == {<<"A">>}
SpunTexts == {<<"S">>}
ReviewTexts == {<<"R">>}
Commands ==
    { <<"a","c","c","e","p","t">>, <<" ","A","c","c","e","p","t","\t">>,
      <<"e","d","i","t">>, <<"E","D","I","T"," ">>,
      <<"r","e","j","e","c","t">>, <<" ","R","e","j","e","c","t">>,
      <<"a","c","c","e","p","t","!">>, <<>> }
InputLines ==
    { <<"H","i">>, <<"D","O","N","E","!">>,
      <<"D","O","N","E">>, <<"d","o","n","e">>, <<" ","D","O","N","E","\t">> }
PipelineLines == { <<"H","i">>, <<"D","O","N","E">> }

(***************************************************************************)
(* Configuration of main.                                                  *)
(***************************************************************************)
chapter_id_base == "gates_of_morning_ch1"

NoCalls == [scrape |-> 0, spin |-> 0, review |-> 0, hitl |-> 0, query |-> 0]

EmptyStore == [id \in {} |-> None]

(***************************************************************************)
(* The variant store.                                                      *)
(***************************************************************************)
\* Variants of collection.add: the tag is lost for the default one; a known id
\* gets a second record; a known id is overwritten.
CollectionAddDefaultTag(st, content_id, content_text, version_type) ==
    IF content_id \in DOMAIN st
    THEN st
    ELSE (content_id :> [document |-> content_text,
                         metadata |-> [id |-> content_id,
                                       version_type |-> "original"]]) @@ st

CollectionAddDuplicate(st, content_id, content_text, version_type) ==
    LET new_id == IF content_id \in DOMAIN st THEN content_id \o "_2" ELSE content_id
    IN  (new_id :> [document |-> content_text,
                    metadata |-> [id |-> content_id,
                                  version_type |-> version_type]]) @@ st

CollectionUpsert(st, content_id, content_text, version_type) ==
    (content_id :> [document |-> content_text,
                    metadata |-> [id |-> content_id,
                                  version_type |-> version_type]]) @@ st

\* collection.add: a new id gets the document and its metadata; an id the
\* collection already holds is left as it is (the add is ignored).
CollectionAdd(st, content_id, content_text, version_type) ==
    IF content_id \in DOMAIN st
    THEN st
    ELSE (content_id :> [document |-> content_text,
                         metadata |-> [id |-> content_id,
                                       version_type |-> version_type]]) @@ st

\* store_content_in_chroma: the add, or an exception of the add that is logged
\* and swallowed.
StoreContent(content_id, content_text, version_type, raises) ==
    /\ store' = IF raises THEN store
                ELSE CollectionAdd(store, content_id, content_text, version_type)
    /\ store_prev' = store
    /\ writes' = Append(writes, [id |-> content_id, document |-> content_text,
                                 version_type |-> version_type, raised |-> raises,
                                 calls |-> calls])

n_results == 1

Min(a, b) == IF a <= b THEN a ELSE b

\* The ranked hits of collection.query: n_results ids (as many as the
\* collection holds, if fewer).  Which ids they are is decided by the
\* embedding of the documents and of the query text: a function of the
\* collection that the program does not control.
Hits(st) ==
    LET k == Min(n_results, Cardinality(DOMAIN st))
    IN  CHOOSE h \in [1..k -> DOMAIN st] : \A a, b \in 1..k : h[a] = h[b] => a = b

\* The value of search_results is a tuple: empty for Python's None, else the
\* one result dictionary.
NoResults == <<>>

\* The dictionary collection.query returns for the one query text: one list
\* per query text in each of its fields.
QueryResult(st) ==
    LET h == Hits(st)
    IN  [documents |-> <<[k \in 1..Len(h) |-> st[h[k]].document]>>,
         metadatas |-> <<[k \in 1..Len(h) |-> st[h[k]].metadata]>>,
         distances |-> <<[k \in 1..Len(h) |-> 0]>>]

\* semantic_search_chroma: the result, or None when the query raises.
QueryResults(st) == {NoResults, <<QueryResult(st)>>}

(***************************************************************************)
(* The conditions of the source.                                           *)
(***************************************************************************)
\* Variants of the conditions: a test for None where the source tests the
\* truth value; a loop that is never left; a sentinel compared as typed.
ScrapeFailedOnlyNone(text) == text = None

ScrapeFailed(text) == Falsy(text)

SpinFailedOnlyNone(text) == text = None

SpinFailed(text) == Falsy(text)

KeepsIteratingAlways(decision) == TRUE

KeepsIterating(decision) == ~Falsy(decision)

\* Variant: the command is lower-cased but not stripped.
NormalizeActionNoStrip(raw) == Lower(raw)

NormalizeAction(raw) == Strip(Lower(raw))

IsSentinelCaseSensitive(line) == Strip(line) = <<"D","O","N","E">>

IsSentinel(line) == Upper(Strip(line)) = <<"D","O","N","E">>

\* ai_spin_chapter: None for an empty input, else the text of the response
\* (which may be empty) or None when the service call raises.
AiSpinResults(text) == IF Falsy(text) THEN {None} ELSE SpunTexts \cup {None, <<>>}

\* ai_review_chapter: the same shape with the review prompt.
AiReviewResults(text) == IF Falsy(text) THEN {None} ELSE ReviewTexts \cup {None, <<>>}

\* The ids and tags main and the checkpoint build for iteration n.
OriginalId == chapter_id_base \o "_original"

\* Variant: the iterations are numbered from 0 in the tag.
SpunTagZeroBased(n) == "ai_spun_iter_" \o ToString(n - 1)

SpunTag(n) == "ai_spun_iter_" \o ToString(n)

SpunId(n) == chapter_id_base \o "_" \o SpunTag(n)

\* Variant: the checkpoint's chapter id does not carry the iteration.
IterIdNoIteration(n) == chapter_id_base \o "_iter"

IterId(n) == chapter_id_base \o "_iter_" \o ToString(n)

FinalId(chapter_id) == chapter_id \o "_final"

HumanEditedId(chapter_id) == chapter_id \o "_human_edited"

Bump(f) == [calls EXCEPT ![f] = @ + 1]

(***************************************************************************)
(* Initial state: the program is started on a new collection.              *)
(***************************************************************************)
Init ==
    /\ pc = "start"
    /\ store = EmptyStore
    /\ num_iterations \in 1..MaxIterations
    /\ original_chapter_text = None
    /\ i = 0
    /\ current_chapter_text = None
    /\ ai_spun_text = None
    /\ ai_review_feedback = None
    /\ human_decision_text = None
    /\ edited_lines = <<>>
    /\ search_results = NoResults
    /\ writes = <<>>
    /\ store_prev = EmptyStore
    /\ calls = NoCalls
    /\ spin_inputs = <<>>
    /\ loop_exit = "none"
    /\ exit_iter = 0
    /\ hitl_base = 0
    /\ raw_input = <<>>
    /\ reprompted = FALSE
    /\ ai_generated_text = None
    /\ hitl_returns = <<>>
    /\ playwright = "none"
    /\ browser = "none"
    /\ scraped_text = None
    /\ close_attempts = 0

(***************************************************************************)
(* main                                                                    *)
(***************************************************************************)
\* chromadb.PersistentClient, before the try: its exception leaves main.
CreateClient ==
    /\ pc = "start"
    /\ \E ok \in BOOLEAN : pc' = IF ok THEN "open_collection" ELSE "raised"
    /\ UNCHANGED fetch_vars
    /\ UNCHANGED main_vars
    /\ UNCHANGED <<original_chapter_text, calls, loop_exit>>

\* Variant: the handler logs the failure and main goes on.
AfterOpenCollectionNoReturn(ok) == "scrape"

\* Where main is after the try of get_or_create_collection: at the fetch, or
\* returned by the handler.
AfterOpenCollection(ok) == IF ok THEN "scrape" ELSE "returned"

\* get_or_create_collection; a failure is logged and main returns.
OpenCollection ==
    /\ pc = "open_collection"
    /\ UNCHANGED fetch_vars
    /\ UNCHANGED <<ai_generated_text, hitl_returns>>
    /\ \E ok \in BOOLEAN :
         /\ pc' = AfterOpenCollection(ok)
         /\ loop_exit' = IF ok THEN loop_exit ELSE "init_failed"
    /\ UNCHANGED <<store, num_iterations, original_chapter_text, i,
                   current_chapter_text, ai_spun_text, ai_review_feedback,
                   human_decision_text, edited_lines, search_results, writes,
                   store_prev, calls, spin_inputs, exit_iter, hitl_base,
                   raw_input, reprompted>>

(***************************************************************************)
(* scrape_and_screenshot, called by main                                   *)
(***************************************************************************)
\* What a selector may match: no paragraph, or the paragraphs of the page.
Paragraphs == {<<>>} \cup {<<text>> : text \in ScrapedTexts}

\* main's test of the value the fetch returned, which ends the run or goes on
\* to store the original.
ScrapeReturns(text) ==
    /\ original_chapter_text' = text
    /\ calls' = Bump("scrape")
    /\ IF ScrapeFailed(text)
       THEN pc' = "returned" /\ loop_exit' = "scrape_failed"
       ELSE pc' = "store_original" /\ loop_exit' = loop_exit

\* An exception leaves scrape_and_screenshot: the async_playwright context is
\* left, and main, which does not catch it, is left too.
ScrapeRaises ==
    /\ playwright' = "stopped"
    /\ pc' = "raised"
    /\ UNCHANGED <<original_chapter_text, calls, loop_exit>>

\* ensure_directory, the async_playwright context and chromium.launch(), none
\* of them inside the try.
ScrapeLaunch ==
    /\ pc = "scrape"
    /\ \E ok \in BOOLEAN :
         IF ok
         THEN /\ playwright' = "running"
              /\ browser' = "open"
              /\ pc' = "new_page"
              /\ UNCHANGED <<original_chapter_text, calls, loop_exit>>
         ELSE ScrapeRaises /\ UNCHANGED browser
    /\ UNCHANGED <<scraped_text, close_attempts>>
    /\ UNCHANGED main_vars

\* browser.new_page(), before the try: its exception is not handled.
ScrapeNewPage ==
    /\ pc = "new_page"
    /\ \E ok \in BOOLEAN :
         IF ok
         THEN pc' = "goto" /\ UNCHANGED <<playwright, original_chapter_text, calls, loop_exit>>
         ELSE ScrapeRaises
    /\ UNCHANGED <<browser, scraped_text, close_attempts>>
    /\ UNCHANGED main_vars

\* A step inside the try that goes on at `next' or raises into the handler.
TryStep(at, next) ==
    /\ pc = at
    /\ \E ok \in BOOLEAN : pc' = IF ok THEN next ELSE "scrape_except"
    /\ UNCHANGED <<original_chapter_text, calls, loop_exit>>
    /\ UNCHANGED <<playwright, browser, scraped_text, close_attempts>>
    /\ UNCHANGED main_vars

\* page.goto
ScrapeGoto == TryStep("goto", "screenshot")

\* page.screenshot
ScrapeScreenshot == TryStep("screenshot", "extract")

\* query_selector_all with the primary selector, with the fallback selector
\* if that matched nothing, inner_text of the elements and the join.
ScrapeExtract ==
    /\ pc = "extract"
    /\ \/ \E primary \in Paragraphs, fallback \in Paragraphs :
            LET content_elements == IF primary = <<>> THEN fallback ELSE primary
            IN  scraped_text' = Join(content_elements) /\ pc' = "close"
       \/ pc' = "scrape_except" /\ UNCHANGED scraped_text
    /\ UNCHANGED <<original_chapter_text, calls, loop_exit>>
    /\ UNCHANGED <<playwright, browser, close_attempts>>
    /\ UNCHANGED main_vars

\* browser.close() at the end of the try, and the return of the text.
ScrapeClose ==
    /\ pc = "close"
    /\ close_attempts' = close_attempts + 1
    /\ \E ok \in BOOLEAN :
         IF ok
         THEN /\ browser' = "closed"
              /\ playwright' = "stopped"
              /\ ScrapeReturns(scraped_text)
         ELSE /\ pc' = "scrape_except"
              /\ UNCHANGED <<browser, playwright, original_chapter_text, calls, loop_exit>>
    /\ UNCHANGED scraped_text
    /\ UNCHANGED main_vars

\* The handler: the error is logged, browser.close() is called and None is
\* returned; an exception of this close leaves the function.
ScrapeExcept ==
    /\ pc = "scrape_except"
    /\ close_attempts' = close_attempts + 1
    /\ \E ok \in BOOLEAN :
         IF ok
         THEN /\ browser' = "closed"
              /\ playwright' = "stopped"
              /\ ScrapeReturns(None)
         ELSE ScrapeRaises /\ UNCHANGED browser
    /\ UNCHANGED scraped_text
    /\ UNCHANGED main_vars

\* The original is stored and becomes the current text; the loop starts.
StoreOriginal ==
    /\ pc = "store_original"
    /\ UNCHANGED fetch_vars
    /\ UNCHANGED <<ai_generated_text, hitl_returns>>
    /\ \E raises \in BOOLEAN :
         StoreContent(OriginalId, original_chapter_text, "original", raises)
    /\ current_chapter_text' = original_chapter_text
    /\ i' = 1
    /\ pc' = "spin"
    /\ UNCHANGED <<num_iterations, original_chapter_text, ai_spun_text,
                   ai_review_feedback, human_decision_text, edited_lines,
                   search_results, calls, spin_inputs, loop_exit, exit_iter,
                   hitl_base, raw_input, reprompted>>

\* Variant: every iteration transforms the fetched original.
SpinInputOriginal == original_chapter_text

\* The text main hands to ai_spin_chapter.
SpinInput == current_chapter_text

\* ai_spin_chapter on the current text; a falsy result leaves the loop.

Spin ==
    /\ pc = "spin"
    /\ UNCHANGED fetch_vars
    /\ UNCHANGED <<ai_generated_text, hitl_returns>>
    /\ \E text \in AiSpinResults(SpinInput) :
         /\ ai_spun_text' = text
         /\ IF SpinFailed(text)
            THEN pc' = "search" /\ loop_exit' = "spin_failed" /\ exit_iter' = i
            ELSE pc' = "store_spun" /\ loop_exit' = loop_exit /\ exit_iter' = exit_iter
    /\ calls' = Bump("spin")
    /\ spin_inputs' = Append(spin_inputs, SpinInput)
    /\ UNCHANGED <<store, num_iterations, original_chapter_text, i,
                   current_chapter_text, ai_review_feedback,
                   human_decision_text, edited_lines, search_results, writes,
                   store_prev, hitl_base, raw_input, reprompted>>

\* The spun text is stored under the iteration's ai_spun id.
StoreSpun ==
    /\ pc = "store_spun"
    /\ UNCHANGED fetch_vars
    /\ UNCHANGED <<ai_generated_text, hitl_returns>>
    /\ \E raises \in BOOLEAN :
         StoreContent(SpunId(i), ai_spun_text, SpunTag(i), raises)
    /\ pc' = "review"
    /\ UNCHANGED <<num_iterations, original_chapter_text, i,
                   current_chapter_text, ai_spun_text, ai_review_feedback,
                   human_decision_text, edited_lines, search_results, calls,
                   spin_inputs, loop_exit, exit_iter, hitl_base, raw_input,
                   reprompted>>

\* ai_review_chapter on the spun text; the feedback is printed if there is any.
Review ==
    /\ pc = "review"
    /\ UNCHANGED fetch_vars
    /\ UNCHANGED <<ai_generated_text, hitl_returns>>
    /\ \E feedback \in AiReviewResults(ai_spun_text) : ai_review_feedback' = feedback
    /\ calls' = Bump("review")
    /\ pc' = "hitl_enter"
    /\ UNCHANGED <<store, num_iterations, original_chapter_text, i,
                   current_chapter_text, ai_spun_text, human_decision_text,
                   edited_lines, search_results, writes, store_prev,
                   spin_inputs, loop_exit, exit_iter, hitl_base, raw_input,
                   reprompted>>

(***************************************************************************)
(* human_in_the_loop_feedback                                              *)
(***************************************************************************)
\* Variant: main hands the reviewer's feedback to the checkpoint.
CheckpointInputFeedback == ai_review_feedback

\* The text main hands to human_in_the_loop_feedback.
CheckpointInput == ai_spun_text

\* The call: the spun text is shown.  (main does not read the feedback again
\* once it is printed; the model forgets its value here.)
HitlEnter ==
    /\ pc = "hitl_enter"
    /\ UNCHANGED fetch_vars
    /\ calls' = Bump("hitl")
    /\ hitl_base' = Len(writes)
    /\ ai_generated_text' = CheckpointInput
    /\ ai_review_feedback' = None
    /\ UNCHANGED hitl_returns
    /\ pc' = "hitl_prompt"
    /\ UNCHANGED <<store, num_iterations, original_chapter_text, i,
                   current_chapter_text, ai_spun_text, human_decision_text,
                   edited_lines, search_results, writes, store_prev,
                   spin_inputs, loop_exit, exit_iter, raw_input, reprompted>>

\* One pass of the command loop: a command is read and acted on.
HitlPrompt ==
    /\ pc = "hitl_prompt"
    /\ UNCHANGED fetch_vars
    /\ \E raw \in Commands :
         LET action == NormalizeAction(raw) IN
         /\ raw_input' = raw
         /\ CASE action = <<"a","c","c","e","p","t">> ->
                   /\ \E raises \in BOOLEAN :
                        StoreContent(FinalId(IterId(i)), ai_generated_text, "final", raises)
                   /\ human_decision_text' = ai_generated_text
                   /\ hitl_returns' = Append(hitl_returns, ai_generated_text)
                   /\ pc' = "decision"
                   /\ UNCHANGED <<edited_lines, reprompted>>
              [] action = <<"e","d","i","t">> ->
                   /\ edited_lines' = <<>>
                   /\ pc' = "hitl_edit"
                   /\ UNCHANGED <<store, writes, store_prev,
                                  human_decision_text, reprompted, hitl_returns>>
              [] action = <<"r","e","j","e","c","t">> ->
                   /\ human_decision_text' = None
                   /\ hitl_returns' = Append(hitl_returns, None)
                   /\ pc' = "decision"
                   /\ UNCHANGED <<store, writes, store_prev, edited_lines,
                                  reprompted>>
              [] OTHER ->
                   /\ reprompted' = TRUE
                   /\ UNCHANGED <<pc, store, writes, store_prev,
                                  human_decision_text, edited_lines, hitl_returns>>
    /\ UNCHANGED <<ai_generated_text, num_iterations, original_chapter_text, i,
                   current_chapter_text, ai_spun_text, ai_review_feedback,
                   search_results, calls, spin_inputs, loop_exit, exit_iter,
                   hitl_base>>

\* One pass of the edit loop, the operator typing one of `lines': a line is
\* read; the sentinel ends the session, the joined lines are stored and
\* returned.
HitlEditLineFrom(lines) ==
    /\ pc = "hitl_edit"
    /\ UNCHANGED fetch_vars
    /\ \E line \in lines :
         /\ raw_input' = line
         /\ IF IsSentinel(line)
            THEN LET human_edited_text == Join(edited_lines) IN
                 /\ \E raises \in BOOLEAN :
                      StoreContent(HumanEditedId(IterId(i)), human_edited_text,
                                   "human_edited", raises)
                 /\ human_decision_text' = human_edited_text
                 /\ hitl_returns' = Append(hitl_returns, human_edited_text)
                 /\ pc' = "decision"
                 /\ UNCHANGED edited_lines
            ELSE /\ Len(edited_lines) < MaxLines
                 /\ edited_lines' = Append(edited_lines, line)
                 /\ UNCHANGED <<pc, store, writes, store_prev,
                                human_decision_text, hitl_returns>>
    /\ UNCHANGED <<ai_generated_text, num_iterations, original_chapter_text, i,
                   current_chapter_text, ai_spun_text, ai_review_feedback,
                   search_results, calls, spin_inputs, loop_exit, exit_iter,
                   hitl_base, reprompted>>

\* In a run of the pipeline the operator types plain lines.
HitlEditLine == HitlEditLineFrom(PipelineLines)

(***************************************************************************)
(* main, continued                                                         *)
(***************************************************************************)
\* Variant: the for loop runs once more than num_iterations.
HasNextIterationInclusive == i <= num_iterations

\* range(1, num_iterations + 1) has a value after i.
HasNextIteration == i < num_iterations

\* The test of the checkpoint's return value, and the step of the for loop.
MainDecision ==
    /\ pc = "decision"
    /\ UNCHANGED fetch_vars
    /\ UNCHANGED <<ai_generated_text, hitl_returns>>
    /\ IF KeepsIterating(human_decision_text)
       THEN /\ current_chapter_text' = human_decision_text
            /\ IF HasNextIteration
               THEN i' = i + 1 /\ pc' = "spin" /\ UNCHANGED <<loop_exit, exit_iter>>
               ELSE i' = i /\ pc' = "search" /\ loop_exit' = "exhausted" /\ exit_iter' = i
       ELSE /\ loop_exit' = "checkpoint_break"
            /\ exit_iter' = i
            /\ pc' = "search"
            /\ UNCHANGED <<current_chapter_text, i>>
    /\ edited_lines' = <<>>
    /\ raw_input' = <<>>
    /\ reprompted' = FALSE
    /\ UNCHANGED <<store, num_iterations, original_chapter_text, ai_spun_text,
                   ai_review_feedback, human_decision_text, search_results,
                   writes, store_prev, calls, spin_inputs, hitl_base>>

\* semantic_search_chroma with the example question.
Search ==
    /\ pc = "search"
    /\ UNCHANGED fetch_vars
    /\ UNCHANGED <<ai_generated_text, hitl_returns>>
    /\ \E results \in QueryResults(store) : search_results' = results
    /\ calls' = Bump("query")
    /\ pc' = "report"
    /\ UNCHANGED <<store, num_iterations, original_chapter_text, i,
                   current_chapter_text, ai_spun_text, ai_review_feedback,
                   human_decision_text, edited_lines, writes, store_prev,
                   spin_inputs, loop_exit, exit_iter, hitl_base, raw_input,
                   reprompted>>

\* Python's truth value of the query result and of its 'documents' list.
HasResults(results) == results # NoResults /\ results[1].documents # <<>>

\* The loop over the result lists reads element 0 of each metadata and
\* distance list: an IndexError when that list is empty.
ReportRaises(results) ==
    \E j \in 1..Len(results[1].documents) :
        results[1].metadatas[j] = <<>> \/ results[1].distances[j] = <<>>

\* The results are printed and main returns, or the printing raises.
Report ==
    /\ pc = "report"
    /\ UNCHANGED fetch_vars
    /\ UNCHANGED <<ai_generated_text, hitl_returns>>
    /\ pc' = IF HasResults(search_results) /\ ReportRaises(search_results)
             THEN "raised" ELSE "returned"
    /\ UNCHANGED <<store, num_iterations, original_chapter_text, i,
                   current_chapter_text, ai_spun_text, ai_review_feedback,
                   human_decision_text, edited_lines, search_results, writes,
                   store_prev, calls, spin_inputs, loop_exit, exit_iter,
                   hitl_base, raw_input, reprompted>>

Next ==
    \/ CreateClient
    \/ OpenCollection
    \/ ScrapeLaunch
    \/ ScrapeNewPage
    \/ ScrapeGoto
    \/ ScrapeScreenshot
    \/ ScrapeExtract
    \/ ScrapeClose
    \/ ScrapeExcept
    \/ StoreOriginal
    \/ Spin
    \/ StoreSpun
    \/ Review
    \/ HitlEnter
    \/ HitlPrompt
    \/ HitlEditLine
    \/ MainDecision
    \/ Search
    \/ Report

Spec == Init /\ [][Next]_vars

\* Every awaited call returns, and the operator, asked for a command or for a
\* line, eventually types a recognized command or the sentinel: a step that
\* moves the program on is eventually taken.
Progress == Next /\ pc' # pc

SpecFair == Spec /\ WF_vars(Progress)

(***************************************************************************)
(* store_content_in_chroma on its own: any sequence of calls of the store  *)
(* function on a new collection, with the ids and tags the pipeline uses   *)
(* (a later run of the program calls it with the ids of the earlier runs). *)
(***************************************************************************)
MaxStoreCalls == 3

StoreIds == {OriginalId, HumanEditedId(IterId(1))}

StoreTags == {"original", "human_edited"}

StoreTexts == ScrapedTexts \cup SpunTexts

InitStore ==
    /\ pc = "store_call"
    /\ store = EmptyStore
    /\ num_iterations = 1
    /\ original_chapter_text = None
    /\ i = 0
    /\ current_chapter_text = None
    /\ ai_spun_text = None
    /\ ai_review_feedback = None
    /\ human_decision_text = None
    /\ edited_lines = <<>>
    /\ search_results = NoResults
    /\ writes = <<>>
    /\ store_prev = EmptyStore
    /\ calls = NoCalls
    /\ spin_inputs = <<>>
    /\ loop_exit = "none"
    /\ exit_iter = 0
    /\ hitl_base = 0
    /\ raw_input = <<>>
    /\ reprompted = FALSE
    /\ ai_generated_text = None
    /\ hitl_returns = <<>>
    /\ playwright = "none"
    /\ browser = "none"
    /\ scraped_text = None
    /\ close_attempts = 0

StoreCall ==
    /\ pc = "store_call"
    /\ UNCHANGED fetch_vars
    /\ UNCHANGED <<ai_generated_text, hitl_returns>>
    /\ Len(writes) < MaxStoreCalls
    /\ \E content_id \in StoreIds, content_text \in StoreTexts,
          version_type \in StoreTags, raises \in BOOLEAN :
         StoreContent(content_id, content_text, version_type, raises)
    /\ UNCHANGED <<pc, num_iterations, original_chapter_text, i,
                   current_chapter_text, ai_spun_text, ai_review_feedback,
                   human_decision_text, edited_lines, search_results, calls,
                   spin_inputs, loop_exit, exit_iter, hitl_base, raw_input,
                   reprompted>>

NextStore == StoreCall

SpecStore == InitStore /\ [][NextStore]_vars

(***************************************************************************)
(* human_in_the_loop_feedback on its own: one call of the checkpoint with  *)
(* a spun text and the chapter id of an iteration, on a new collection,    *)
(* the operator typing any of the input lines.  The call has returned when *)
(* pc is "decision".                                                       *)
(***************************************************************************)
InitCheckpoint ==
    /\ pc = "hitl_enter"
    /\ store = EmptyStore
    /\ num_iterations = MaxIterations
    /\ original_chapter_text = None
    /\ i \in 1..MaxIterations
    /\ current_chapter_text = None
    /\ ai_spun_text \in SpunTexts
    /\ ai_review_feedback = None
    /\ human_decision_text = None
    /\ edited_lines = <<>>
    /\ search_results = NoResults
    /\ writes = <<>>
    /\ store_prev = EmptyStore
    /\ calls = NoCalls
    /\ spin_inputs = <<>>
    /\ loop_exit = "none"
    /\ exit_iter = 0
    /\ hitl_base = 0
    /\ raw_input = <<>>
    /\ reprompted = FALSE
    /\ ai_generated_text = None
    /\ hitl_returns = <<>>
    /\ playwright = "none"
    /\ browser = "none"
    /\ scraped_text = None
    /\ close_attempts = 0

CheckpointEditLine == HitlEditLineFrom(InputLines)

NextCheckpoint ==
    \/ HitlEnter
    \/ HitlPrompt
    \/ CheckpointEditLine

SpecCheckpoint == InitCheckpoint /\ [][NextCheckpoint]_vars

(***************************************************************************)
(* Notions the properties are stated in.                                   *)
(***************************************************************************)
Sentinel == <<"D","O","N","E">>

AcceptCommands == { <<"a","c","c","e","p","t">>, <<" ","A","c","c","e","p","t","\t">> }

RejectCommands == { <<"r","e","j","e","c","t">>, <<" ","R","e","j","e","c","t">> }

\* What the collection holds under the id of a write that took effect.
Entry(w) ==
    [document |-> w.document,
     metadata |-> [id |-> w.id, version_type |-> w.version_type]]

LastWrite == writes[Len(writes)]

NoWriteRaised == \A k \in 1..Len(writes) : ~writes[k].raised

WrittenIds == {writes[k].id : k \in 1..Len(writes)}

RunEnded == pc \in {"returned", "raised"}

\* The newline-join of a list of lines, built from its end.
RECURSIVE NewlineJoin(_)
NewlineJoin(lines) ==
    IF Len(lines) = 0 THEN <<>>
    ELSE IF Len(lines) = 1 THEN lines[1]
    ELSE NewlineJoin(SubSeq(lines, 1, Len(lines) - 1)) \o <<"\n">> \o lines[Len(lines)]

\* The ids of the variants of the iterations 1..n that ran to their end:
\* each one's ai_spun id and the final or human_edited id of its decision.
SpunIdsUpTo(n) == {chapter_id_base \o "_ai_spun_iter_" \o ToString(m) : m \in 1..n}

DecisionIds(m) ==
    { chapter_id_base \o "_iter_" \o ToString(m) \o "_final",
      chapter_id_base \o "_iter_" \o ToString(m) \o "_human_edited" }

\* The last call of the Transformer returned None or an empty text.
TransformerFailed == calls.spin >= 1 /\ (ai_spun_text = None \/ ai_spun_text = <<>>)

C2_NoExceptionEscapesMain ==
    (calls.scrape = 1 /\ original_chapter_text # None /\ original_chapter_text # <<>>) =>
        pc # "raised"

(***************************************************************************)
(* C3: the loop is left at the checkpoint step only when the checkpoint    *)
(* returned None; an empty edited text is content, not a rejection.        *)
(***************************************************************************)
C3_CheckpointBreakOnlyOnNone ==
    loop_exit = "checkpoint_break" => human_decision_text = None

C6_RejectWritesNothingAndStops ==
    /\ (pc = "decision" /\ raw_input \in RejectCommands) =>
          /\ human_decision_text = None
          /\ Len(writes) = hitl_base
    /\ (pc \in {"search", "report", "returned", "raised"}
            /\ calls.hitl >= 1 /\ human_decision_text = None) =>
          LET k == calls.hitl IN
          /\ calls.spin = k
          /\ calls.review = k
          /\ Len(writes) = hitl_base
          /\ WrittenIds \subseteq
                {chapter_id_base \o "_original"} \cup SpunIdsUpTo(k)
                    \cup UNION {DecisionIds(m) : m \in 1..(k - 1)}

C6_Witness ==
    /\ pc = "returned"
    /\ calls.hitl = 1
    /\ human_decision_text = None
    /\ num_iterations = 2
    /\ Len(writes) = 2

(***************************************************************************)
(* C7: when the fetch fails or yields no text the run ends there: nothing  *)
(* is written and the Transformer, the Reviewer and the Checkpoint are not *)
(* called.                                                                 *)
(***************************************************************************)
C7_FetchFailureEndsRun ==
    (calls.scrape = 1 /\ (original_chapter_text = None \/ original_chapter_text = <<>>)) =>
        /\ pc = "returned"
        /\ writes = <<>>
        /\ store = EmptyStore
        /\ calls.spin = 0
        /\ calls.review = 0
        /\ calls.hitl = 0
        /\ calls.query = 0

C7_Witness ==
    /\ pc = "returned"
    /\ calls.scrape = 1
    /\ original_chapter_text = <<>>

(***************************************************************************)
(* C8: a store write with an id, content and tag that the store already    *)
(* holds under that id (the state a first such write leaves) changes       *)
(* nothing: same ids, same documents, same metadata; and the call returns  *)
(* to its caller.                                                          *)
(***************************************************************************)
C8_StoreWriteIdempotent ==
    (writes # <<>> /\ LastWrite.id \in DOMAIN store_prev
        /\ store_prev[LastWrite.id] = Entry(LastWrite)) =>
        /\ store = store_prev
        /\ pc = "store_call"

C8_Witness ==
    /\ Len(writes) = 2
    /\ writes[1] = writes[2]
    /\ ~LastWrite.raised
    /\ store_prev # EmptyStore

(***************************************************************************)
(* C9: after a store write that did not raise, the store holds the written *)
(* content and tag under the id, also when the id was already present with *)
(* another content or tag.                                                 *)
(***************************************************************************)
C9_StoreWriteOverwrites ==
    (writes # <<>> /\ ~LastWrite.raised) => store[LastWrite.id] = Entry(LastWrite)

(***************************************************************************)
(* C10: what the store holds under an id is what the first write of that   *)
(* id that took effect put there, whatever was written under the id later; *)
(* and the id an edit is written under differs from the id of the spun     *)
(* text that was edited.                                                   *)
(***************************************************************************)
C10_VariantsImmutable ==
    /\ \A id \in DOMAIN store :
         \E k \in 1..Len(writes) :
            /\ writes[k].id = id
            /\ ~writes[k].raised
            /\ \A m \in 1..(k - 1) : writes[m].id = id => writes[m].raised
            /\ store[id] = Entry(writes[k])
    /\ \A id \in DOMAIN store_prev : id \in DOMAIN store /\ store[id] = store_prev[id]
    /\ \A n \in 1..MaxIterations : HumanEditedId(IterId(n)) # SpunId(n)

C10_Witness ==
    /\ Len(writes) = 2
    /\ writes[1].id = writes[2].id
    /\ writes[1].document # writes[2].document
    /\ ~writes[1].raised
    /\ ~writes[2].raised

\* The fetch has been entered and has neither returned nor raised.
FetchRunning == pc \in {"scrape", "new_page", "goto", "screenshot", "extract", "close", "scrape_except"}

(***************************************************************************)
(* C11: when a fetch that launched a browser has returned or raised,       *)
(* browser.close() has been called at least once, whichever step failed.   *)
(***************************************************************************)
C11_SessionClosedOnEveryExit ==
    (browser # "none" /\ ~FetchRunning) => close_attempts >= 1

\* No text the Reviewer produced is in the store, in a store write, in the
\* current text, among the Transformer's inputs or under review.
NoCritiqueLeak ==
    /\ \A id \in DOMAIN store : store[id].document \notin ReviewTexts
    /\ \A k \in 1..Len(writes) : writes[k].document \notin ReviewTexts
    /\ \A k \in 1..Len(spin_inputs) : spin_inputs[k] \notin ReviewTexts
    /\ \A k \in 1..Len(hitl_returns) : hitl_returns[k] \notin ReviewTexts
    /\ current_chapter_text \notin ReviewTexts
    /\ ai_generated_text \notin ReviewTexts

\* The Reviewer's outcome is held by ai_review_feedback only, and only until
\* the checkpoint is entered.
OutcomeForgotten == pc # "hitl_enter" => ai_review_feedback = None

\* The step of the Reviewer changes nothing but the feedback and the call
\* count, whatever the outcome.
ReviewStepFrame ==
    pc = "review" =>
        /\ pc' = "hitl_enter"
        /\ calls' = [calls EXCEPT !.review = @ + 1]
        /\ UNCHANGED <<store, num_iterations, original_chapter_text, i,
                       current_chapter_text, ai_spun_text, human_decision_text,
                       edited_lines, search_results, writes, store_prev,
                       spin_inputs, loop_exit, exit_iter, hitl_base, raw_input,
                       reprompted, ai_generated_text, hitl_returns,
                       playwright, browser, scraped_text, close_attempts>>

\* The step that follows the Reviewer's does not depend on the outcome: the
\* checkpoint is entered with the spun text.
EnterStepFrame ==
    pc = "hitl_enter" =>
        /\ pc' = "hitl_prompt"
        /\ ai_generated_text' = ai_spun_text
        /\ ai_review_feedback' = None
        /\ calls' = [calls EXCEPT !.hitl = @ + 1]
        /\ hitl_base' = Len(writes)
        /\ UNCHANGED <<store, num_iterations, original_chapter_text, i,
                       current_chapter_text, ai_spun_text, human_decision_text,
                       edited_lines, search_results, writes, store_prev,
                       spin_inputs, loop_exit, exit_iter, raw_input,
                       reprompted, hitl_returns,
                       playwright, browser, scraped_text, close_attempts>>

(***************************************************************************)
(* C12: the Reviewer is advisory only.  Its step changes nothing but the   *)
(* feedback, the next step enters the checkpoint with the spun text and    *)
(* drops the feedback, so that runs differing in the Reviewer's outcome    *)
(* are in the same state from the entry of the checkpoint on: the same     *)
(* Transformer inputs, checkpoint inputs, store writes and loop exit.  The *)
(* critique is never written to the store and never the current text.      *)
(***************************************************************************)
C12_ReviewerIsAdvisory ==
    [][/\ ReviewStepFrame
       /\ EnterStepFrame
       /\ NoCritiqueLeak /\ NoCritiqueLeak'
       /\ OutcomeForgotten /\ OutcomeForgotten']_vars

\* A critique was produced at iteration 2, and iteration 2's checkpoint was
\* entered with the spun text.
C12_Witness ==
    /\ pc = "hitl_enter"
    /\ i = 2
    /\ ai_review_feedback \in ReviewTexts
    /\ Len(writes) = 4

\* A command as the claim reads it: trimmed, then lower-cased.
CommandOf(raw) == Lower(Strip(raw))

RecognizedCommands == { <<"a","c","c","e","p","t">>, <<"e","d","i","t">>, <<"r","e","j","e","c","t">> }

(***************************************************************************)
(* C13: while the checkpoint awaits a decision, every command read so far  *)
(* in this call was unrecognized (trimmed and lower-cased it is not        *)
(* accept, edit or reject), and such commands have changed nothing: no     *)
(* store write was made, nothing was returned and the text under review is *)
(* the text the checkpoint was called with.  A command that is accept,     *)
(* edit or reject up to letter case and surrounding whitespace ends the    *)
(* wait: the checkpoint leaves AwaitingDecision by such a command only.    *)
(***************************************************************************)
C13_UnrecognizedCommandReprompts ==
    /\ pc = "hitl_prompt" =>
          /\ CommandOf(raw_input) \notin RecognizedCommands
          /\ Len(writes) = hitl_base
          /\ Len(hitl_returns) = calls.hitl - 1
          /\ ai_generated_text = ai_spun_text
          /\ edited_lines = <<>>
    /\ (pc = "hitl_edit" /\ edited_lines = <<>>) =>
          CommandOf(raw_input) = <<"e","d","i","t">>
    /\ (pc = "decision" /\ Len(writes) = hitl_base) =>
          CommandOf(raw_input) = <<"r","e","j","e","c","t">>
    /\ (pc = "decision" /\ Len(writes) > hitl_base /\ LastWrite.version_type = "final") =>
          CommandOf(raw_input) = <<"a","c","c","e","p","t">>

\* An unrecognized command was read and re-prompted, and a command in
\* capitals and whitespace was then taken as accept.
C13_Witness ==
    /\ pc = "decision"
    /\ reprompted
    /\ raw_input = <<" ","A","c","c","e","p","t","\t">>
    /\ LastWrite.version_type = "final"

\* The Transformer's input at each iteration so far: the fetched original at
\* iteration 1, what the checkpoint of the iteration before returned after.
InputsThreaded ==
    /\ Len(spin_inputs) = calls.spin
    /\ \A k \in 1..Len(spin_inputs) :
         spin_inputs[k] = IF k = 1 THEN original_chapter_text ELSE hitl_returns[k - 1]
    /\ pc \in {"store_spun", "review", "hitl_enter", "hitl_prompt", "hitl_edit", "decision"} =>
         /\ Len(spin_inputs) = i
         /\ current_chapter_text = spin_inputs[i]
         /\ Len(hitl_returns) = IF pc = "decision" THEN i ELSE i - 1

\* The current text is set when the original is stored, and changes after
\* that only in the step that follows a checkpoint's return, to what the
\* checkpoint returned.
CurrentTextStep ==
    current_chapter_text' # current_chapter_text =>
        \/ pc = "store_original" /\ current_chapter_text' = original_chapter_text
        \/ /\ pc = "decision"
           /\ Len(hitl_returns) = i
           /\ current_chapter_text' = hitl_returns[i]

(***************************************************************************)
(* C14: the Transformer's input at iteration 1 is the fetched original     *)
(* text, its input at every later iteration is the text the checkpoint of  *)
(* the iteration before returned, and the current text changes only in the *)
(* step after a checkpoint has returned, once per iteration.               *)
(***************************************************************************)
C14_CurrentTextThreading ==
    [][InputsThreaded /\ InputsThreaded' /\ CurrentTextStep]_vars

\* Iteration 2 transformed the text the operator typed at iteration 1.
C14_Witness ==
    /\ Len(spin_inputs) = 2
    /\ spin_inputs[1] = original_chapter_text
    /\ spin_inputs[2] = <<"H","i">>
    /\ hitl_returns[1] = <<"H","i">>

\* The id of the spun variant of iteration n, spelled out.
SpunIdOf(n) == chapter_id_base \o "_ai_spun_iter_" \o ToString(n)

\* The write of the spun text of iteration n: made when the Transformer had
\* been called n times and the checkpoint n - 1 times, of a text the
\* Transformer produced.
IsSpunWrite(w, n) ==
    /\ w.id = SpunIdOf(n)
    /\ w.version_type = "ai_spun_iter_" \o ToString(n)
    /\ w.document \in SpunTexts
    /\ w.calls.spin = n
    /\ w.calls.hitl = n - 1

FetchSucceeded ==
    calls.scrape = 1 /\ original_chapter_text # None /\ original_chapter_text # <<>>

\* The Transformer has been called at most once in each iteration begun and
\* at most num_iterations times, the checkpoint has been entered at most
\* once per Transformer call, and the query is made at most once.
CallBounds ==
    /\ calls.spin <= i
    /\ i <= num_iterations
    /\ calls.hitl <= calls.spin
    /\ calls.review <= calls.spin
    /\ calls.scrape <= 1
    /\ calls.query <= 1

(***************************************************************************)
(* C16: when every call returns and the operator eventually types a        *)
(* recognized command and the sentinel, the run ends; the Transformer is   *)
(* called at most once per iteration and at most num_iterations times, the *)
(* checkpoint is entered at most num_iterations times, and a run whose     *)
(* fetch succeeded has made exactly one demonstration query when it ends.  *)
(***************************************************************************)
C16_TerminationAndCallBounds ==
    /\ <>RunEnded
    /\ [](CallBounds /\ ((RunEnded /\ FetchSucceeded) => calls.query = 1))

\* A run of two iterations has ended, with two calls of the Transformer, two
\* checkpoints and one query.
C16_Witness ==
    /\ RunEnded
    /\ num_iterations = 2
    /\ calls.spin = 2
    /\ calls.hitl = 2
    /\ calls.query = 1

\* The ids of the naming convention for iterations 1..n, spelled out.
ConventionIds(n) ==
    {chapter_id_base \o "_original"}
        \cup {SpunIdOf(m) : m \in 1..n}
        \cup UNION {DecisionIds(m) : m \in 1..n}

(***************************************************************************)
(* C17: in a run no two store writes use the same id; the ids of the       *)
(* original, of the spun texts and of the final and human_edited texts of  *)
(* the iterations are pairwise distinct; at most one of the final and the  *)
(* human_edited id of an iteration is written; and a run of N iterations   *)
(* makes at most 1 + 2N writes.                                            *)
(***************************************************************************)
C17_WriteIdsDistinct ==
    /\ \A k \in 1..Len(writes) : \A m \in 1..Len(writes) :
          writes[k].id = writes[m].id => k = m
    /\ WrittenIds \subseteq ConventionIds(num_iterations)
    /\ Cardinality(ConventionIds(MaxIterations)) = 1 + 3 * MaxIterations
    /\ \A n \in 1..num_iterations : Cardinality(WrittenIds \cap DecisionIds(n)) <= 1
    /\ Len(writes) <= 1 + 2 * num_iterations

\* A run of two iterations has made its five writes: the original, two spun
\* texts, a final and a human_edited text.
C17_Witness ==
    /\ num_iterations = 2
    /\ Len(writes) = 5
    /\ chapter_id_base \o "_iter_1_final" \in WrittenIds
    /\ chapter_id_base \o "_iter_2_human_edited" \in WrittenIds

(***************************************************************************)
(* C18: when get_or_create_collection has failed, main has returned: no    *)
(* fetch was started, the Transformer, the Reviewer and the checkpoint     *)
(* were not called, no store write and no query was made, and no exception *)
(* left main.                                                              *)
(***************************************************************************)
C18_CollectionFailureEndsRun ==
    loop_exit = "init_failed" =>
        /\ pc = "returned"
        /\ calls = [scrape |-> 0, spin |-> 0, review |-> 0, hitl |-> 0, query |-> 0]
        /\ playwright = "none" /\ browser = "none" /\ close_attempts = 0
        /\ original_chapter_text = None
        /\ spin_inputs = <<>> /\ hitl_returns = <<>>
        /\ writes = <<>> /\ store = EmptyStore
        /\ search_results = NoResults

C18_Witness ==
    /\ loop_exit = "init_failed"
    /\ pc = "returned"
    /\ writes = <<>>

====
